---- MODULE Spec2Model ----
(***************************************************************************)
(* Ipv6EndPointDemux (src/internet/model/ipv6-end-point-demux.cc): the     *)
(* collection of transport end points of one protocol instance, the        *)
(* allocation of end points and ephemeral ports, and the lookup of the end *)
(* point(s) an arriving packet is delivered to.                            *)
(***************************************************************************)
EXTENDS Integers, Sequences, FiniteSets, TLC

(***************************************************************************)
(* Bounds of the model.                                                    *)
(***************************************************************************)
\* number of ports of the ephemeral window the model scans
RangeSize == 2
\* end points the device-binding specification lets the collection hold
MaxBound == 3
\* end points the lookup-precedence specification lets the collection hold
MaxPrec == 4
\* end points the arrival specification lets the collection hold
MaxArrival == 3
\* end points the disabled-end-point specification lets the collection hold
MaxDisabled == 3
\* end points the allocation specification lets the collection hold
MaxAlloc == 3
\* end points the delegation specification lets the collection hold
MaxDelegate == 3
\* end points the bucket specification lets the collection hold
MaxBuckets == 3
\* end points the all-routers specification lets the collection hold
MaxRouters == 3
\* end points the specification without mutators lets the collection hold
MaxPlain == 3

(***************************************************************************)
(* Values.                                                                 *)
(***************************************************************************)
\* uint16_t: ++port wraps modulo 2^16
PortModulus == 65536
\* the constructor's m_ephemeral and m_portFirst
PortFirstDefault == 49152
\* the constructor's m_portLast
PortLastDefault == 65535

\* Ipv6Address::GetAny() and Ipv6Address::GetAllRoutersMulticast()
AnyAddr == "::"
AllRouters == "ff02::2"
AddrA == "2001:db8::a"
AddrB == "2001:db8::b"

\* a null Ptr<NetDevice> / a null Ptr<Ipv6Interface>; nullptr as an end point
NoDevice == "nullptr"
NoInterface == "nullptr"
Dev1 == "D1"
Dev2 == "D2"
NullEndPoint == 0

\* a well-known port outside the ephemeral window, and a peer port
PortP == 80
PortQ == 1234

VARIABLES
    m_endPoints,  \* the list of end points, in insertion order
    m_ephemeral,  \* the last ephemeral port handed out
    m_portFirst,  \* first port of the ephemeral range
    m_portLast,   \* last port of the ephemeral range
    aborted,      \* NS_ABORT_MSG_IF has ended the process
    last,         \* the last call: its name, arguments and result
    anyRun,       \* results of the Allocate() calls made since construction,
                  \* while no other call has been made; <<-1>> afterwards
    watch,        \* the port of the end point released last and the Allocate()
                  \* calls made since, while no other call has been made
    stale,        \* the pointer the caller keeps to an end point it released
    gone          \* the end point released last, until an allocation makes an
                  \* end point with the same fields; <<>> otherwise

vars == <<m_endPoints, m_ephemeral, m_portFirst, m_portLast, aborted, last, anyRun,
          watch, stale, gone>>

(***************************************************************************)
(* Ipv6EndPoint: a plain holder of the fields below.  The constructor      *)
(* Ipv6EndPoint(addr, port) leaves the peer at the wildcard, no bound      *)
(* device and reception enabled.  An end point is identified by its place  *)
(* in the collection: a pointer to a live end point and its index          *)
(* determine each other.                                                   *)
(***************************************************************************)
Ipv6EndPoint(addr, port) ==
    [localAddr |-> addr, localPort |-> port,
     peerAddr |-> AnyAddr, peerPort |-> 0, dev |-> NoDevice, rx |-> TRUE]

SetPeer(e, addr, port) == [e EXCEPT !.peerAddr = addr, !.peerPort = port]

(***************************************************************************)
(* Scans of the collection.                                                *)
(***************************************************************************)
\* a scan that overlooks the end points that cannot receive
LookupPortLocal_RxOnly(eps, port) ==
    \E i \in 1..Len(eps) : eps[i].rx /\ eps[i].localPort = port

LookupPortLocal(eps, port) ==
    \E i \in 1..Len(eps) : eps[i].localPort = port

\* a conflict test that finds nothing
LookupLocal_NoMatch(eps, boundNetDevice, addr, port) == FALSE

\* a conflict test that counts end points without peer only
LookupLocal_UnconnectedOnly(eps, boundNetDevice, addr, port) ==
    \E i \in 1..Len(eps) :
        /\ eps[i].localPort = port
        /\ eps[i].localAddr = addr
        /\ eps[i].dev = boundNetDevice
        /\ eps[i].peerAddr = AnyAddr
        /\ eps[i].peerPort = 0

\* a scan that does not compare the bound device
LookupLocal_AnyDevice(eps, boundNetDevice, addr, port) ==
    \E i \in 1..Len(eps) :
        /\ eps[i].localPort = port
        /\ eps[i].localAddr = addr

LookupLocal(eps, boundNetDevice, addr, port) ==
    \E i \in 1..Len(eps) :
        /\ eps[i].localPort = port
        /\ eps[i].localAddr = addr
        /\ eps[i].dev = boundNetDevice

\* a duplicate test that lets an end point without device pass
LookupFull_SameDeviceOnly(eps, boundNetDevice, localAddress, localPort, peerAddress, peerPort) ==
    \E i \in 1..Len(eps) :
        /\ eps[i].localPort = localPort
        /\ eps[i].localAddr = localAddress
        /\ eps[i].peerPort = peerPort
        /\ eps[i].peerAddr = peerAddress
        /\ eps[i].dev = boundNetDevice

\* the loop of the five-argument Allocate
LookupFull(eps, boundNetDevice, localAddress, localPort, peerAddress, peerPort) ==
    \E i \in 1..Len(eps) :
        /\ eps[i].localPort = localPort
        /\ eps[i].localAddr = localAddress
        /\ eps[i].peerPort = peerPort
        /\ eps[i].peerAddr = peerAddress
        /\ (eps[i].dev = boundNetDevice \/ eps[i].dev = NoDevice)

(***************************************************************************)
(* AllocateEphemeralPort: the do/while loop, one candidate per iteration.  *)
(* `count` is the int counter before its test, `port` the uint16_t         *)
(* candidate of the previous iteration.  The result is the port found, or  *)
(* 0 when the counter runs out.                                            *)
(***************************************************************************)
\* a wrap that comes one port early and never offers m_portLast
NextCandidate_SkipsLast(port, first, lastPort) ==
    LET inc == (port + 1) % PortModulus
    IN  IF inc < first \/ inc >= lastPort THEN first ELSE inc

\* a wrap that tests the upper end of the range only
NextCandidate_UpperTestOnly(port, first, lastPort) ==
    LET inc == (port + 1) % PortModulus
    IN  IF inc > lastPort THEN first ELSE inc

NextCandidate(port, first, lastPort) ==
    LET inc == (port + 1) % PortModulus
    IN  IF inc < first \/ inc > lastPort THEN first ELSE inc

RECURSIVE EphemeralScan(_, _, _, _, _)
EphemeralScan(eps, port, count, first, lastPort) ==
    IF count < 0
    THEN 0
    ELSE LET cand == NextCandidate(port, first, lastPort)
         IN  IF LookupPortLocal(eps, cand)
             THEN EphemeralScan(eps, cand, count - 1, first, lastPort)
             ELSE cand

\* a counter that starts one too high
ScanCount_OneMore(first, lastPort) == lastPort - first + 1

\* int count = m_portLast - m_portFirst
ScanCount(first, lastPort) == lastPort - first

\* the candidates the loop hands to LookupPortLocal, in order
RECURSIVE EphemeralTrace(_, _, _, _, _)
EphemeralTrace(eps, port, count, first, lastPort) ==
    IF count < 0
    THEN <<>>
    ELSE LET cand == NextCandidate(port, first, lastPort)
         IN  IF LookupPortLocal(eps, cand)
             THEN <<cand>> \o EphemeralTrace(eps, cand, count - 1, first, lastPort)
             ELSE <<cand>>

CandidatesTried(eps, ephemeral, first, lastPort) ==
    EphemeralTrace(eps, ephemeral, ScanCount(first, lastPort), first, lastPort)

\* a scan that tries m_ephemeral itself first
AllocateEphemeralPort_FromCurrent(eps, ephemeral, first, lastPort) ==
    EphemeralScan(eps, ephemeral - 1, lastPort - first, first, lastPort)

\* a scan whose counter gives up one candidate early
AllocateEphemeralPort_OneShort(eps, ephemeral, first, lastPort) ==
    EphemeralScan(eps, ephemeral, lastPort - first - 1, first, lastPort)

AllocateEphemeralPort(eps, ephemeral, first, lastPort) ==
    EphemeralScan(eps, ephemeral, lastPort - first, first, lastPort)

(***************************************************************************)
(* The record of a call: its name, its arguments and what it returned.     *)
(* ret is the end point returned or passed (its index, NullEndPoint for    *)
(* nullptr), found the list Lookup returned.                               *)
(***************************************************************************)
NoCall ==
    [op |-> "none", dev |-> NoDevice, addr |-> AnyAddr, port |-> 0,
     paddr |-> AnyAddr, pport |-> 0, ret |-> NullEndPoint, found |-> <<>>]

Call(op, dev, addr, port, paddr, pport, ret, found) ==
    [op |-> op, dev |-> dev, addr |-> addr, port |-> port,
     paddr |-> paddr, pport |-> pport, ret |-> ret, found |-> found]

\* h points to an end point of the collection
Live(eps, h) == h \in 1..Len(eps)

\* the Allocate() calls so far are the only calls made since construction
Broken == <<-1>>
RunAfterAny(port) ==
    IF anyRun = Broken \/ Len(anyRun) > m_portLast - m_portFirst + 1
    THEN Broken
    ELSE Append(anyRun, port)

(***************************************************************************)
(* Allocation.                                                             *)
(***************************************************************************)
\* an Allocate() that does not keep the port it has found in m_ephemeral
Allocate_ForgetsPort ==
    /\ ~aborted
    /\ LET port == AllocateEphemeralPort(m_endPoints, m_ephemeral, m_portFirst, m_portLast)
           h == Len(m_endPoints) + 1
       IN  /\ anyRun' = RunAfterAny(port)
           /\ IF port = 0
              THEN /\ last' = Call("Allocate", NoDevice, AnyAddr, 0, AnyAddr, 0, NullEndPoint, <<>>)
                   /\ UNCHANGED m_endPoints
              ELSE /\ m_endPoints' = Append(m_endPoints, Ipv6EndPoint(AnyAddr, port))
                   /\ last' = Call("Allocate", NoDevice, AnyAddr, port, AnyAddr, 0, h, <<>>)
    /\ UNCHANGED <<m_ephemeral, m_portFirst, m_portLast, aborted>>

\* Allocate()
Allocate ==
    /\ ~aborted
    /\ LET port == AllocateEphemeralPort(m_endPoints, m_ephemeral, m_portFirst, m_portLast)
           h == Len(m_endPoints) + 1
       IN  /\ anyRun' = RunAfterAny(port)
           /\ IF port = 0
              THEN /\ last' = Call("Allocate", NoDevice, AnyAddr, 0, AnyAddr, 0, NullEndPoint, <<>>)
                   /\ UNCHANGED <<m_endPoints, m_ephemeral>>
              ELSE /\ m_endPoints' = Append(m_endPoints, Ipv6EndPoint(AnyAddr, port))
                   /\ m_ephemeral' = port
                   /\ last' = Call("Allocate", NoDevice, AnyAddr, port, AnyAddr, 0, h, <<>>)
    /\ UNCHANGED <<m_portFirst, m_portLast, aborted>>

\* Allocate(Ipv6Address address)
AllocateAddr(address) ==
    /\ ~aborted
    /\ LET port == AllocateEphemeralPort(m_endPoints, m_ephemeral, m_portFirst, m_portLast)
           h == Len(m_endPoints) + 1
       IN  IF port = 0
           THEN /\ last' = Call("AllocateAddr", NoDevice, address, 0, AnyAddr, 0, NullEndPoint, <<>>)
                /\ UNCHANGED <<m_endPoints, m_ephemeral>>
           ELSE /\ m_endPoints' = Append(m_endPoints, Ipv6EndPoint(address, port))
                /\ m_ephemeral' = port
                /\ last' = Call("AllocateAddr", NoDevice, address, port, AnyAddr, 0, h, <<>>)
    /\ anyRun' = Broken
    /\ UNCHANGED <<m_portFirst, m_portLast, aborted>>

\* an allocation that binds the new end point to the requested device
AllocateLocal_Binds(op, boundNetDevice, address, port) ==
    /\ ~aborted
    /\ LET h == Len(m_endPoints) + 1
       IN  IF \/ LookupLocal(m_endPoints, boundNetDevice, address, port)
              \/ LookupLocal(m_endPoints, NoDevice, address, port)
           THEN /\ last' = Call(op, boundNetDevice, address, port, AnyAddr, 0, NullEndPoint, <<>>)
                /\ UNCHANGED m_endPoints
           ELSE /\ m_endPoints' =
                       Append(m_endPoints,
                              [Ipv6EndPoint(address, port) EXCEPT !.dev = boundNetDevice])
                /\ last' = Call(op, boundNetDevice, address, port, AnyAddr, 0, h, <<>>)
    /\ anyRun' = Broken
    /\ UNCHANGED <<m_ephemeral, m_portFirst, m_portLast, aborted>>

\* an allocation that reports the conflict after it has inserted the end point
AllocateLocal_KeepsDuplicate(op, boundNetDevice, address, port) ==
    /\ ~aborted
    /\ LET h == Len(m_endPoints) + 1
       IN  /\ m_endPoints' = Append(m_endPoints, Ipv6EndPoint(address, port))
           /\ IF \/ LookupLocal(m_endPoints, boundNetDevice, address, port)
                 \/ LookupLocal(m_endPoints, NoDevice, address, port)
              THEN last' = Call(op, boundNetDevice, address, port, AnyAddr, 0, NullEndPoint, <<>>)
              ELSE last' = Call(op, boundNetDevice, address, port, AnyAddr, 0, h, <<>>)
    /\ anyRun' = Broken
    /\ UNCHANGED <<m_ephemeral, m_portFirst, m_portLast, aborted>>

\* Allocate(Ptr<NetDevice> boundNetDevice, Ipv6Address address, uint16_t port),
\* recorded under the name `op` of the overload the caller used
AllocateLocal(op, boundNetDevice, address, port) ==
    /\ ~aborted
    /\ LET h == Len(m_endPoints) + 1
       IN  IF \/ LookupLocal(m_endPoints, boundNetDevice, address, port)
              \/ LookupLocal(m_endPoints, NoDevice, address, port)
           THEN /\ last' = Call(op, boundNetDevice, address, port, AnyAddr, 0, NullEndPoint, <<>>)
                /\ UNCHANGED m_endPoints
           ELSE /\ m_endPoints' = Append(m_endPoints, Ipv6EndPoint(address, port))
                /\ last' = Call(op, boundNetDevice, address, port, AnyAddr, 0, h, <<>>)
    /\ anyRun' = Broken
    /\ UNCHANGED <<m_ephemeral, m_portFirst, m_portLast, aborted>>

AllocateDevAddrPort(boundNetDevice, address, port) ==
    AllocateLocal("AllocateDevAddrPort", boundNetDevice, address, port)

\* a two-argument form that inserts the end point itself, without the
\* conflict test of the three-argument form
AllocateDevPort_Unchecked(boundNetDevice, port) ==
    /\ ~aborted
    /\ m_endPoints' = Append(m_endPoints, Ipv6EndPoint(AnyAddr, port))
    /\ last' = Call("AllocateDevPort", boundNetDevice, AnyAddr, port, AnyAddr, 0,
                    Len(m_endPoints) + 1, <<>>)
    /\ anyRun' = Broken
    /\ UNCHANGED <<m_ephemeral, m_portFirst, m_portLast, aborted>>

\* Allocate(Ptr<NetDevice> boundNetDevice, uint16_t port)
AllocateDevPort(boundNetDevice, port) ==
    AllocateLocal("AllocateDevPort", boundNetDevice, AnyAddr, port)

\* an allocation of a connected end point without the LookupFull test
AllocateFull_Unchecked(boundNetDevice, localAddress, localPort, peerAddress, peerPort) ==
    /\ ~aborted
    /\ m_endPoints' =
           Append(m_endPoints,
                  SetPeer(Ipv6EndPoint(localAddress, localPort), peerAddress, peerPort))
    /\ last' = Call("AllocateFull", boundNetDevice, localAddress, localPort,
                    peerAddress, peerPort, Len(m_endPoints) + 1, <<>>)
    /\ anyRun' = Broken
    /\ UNCHANGED <<m_ephemeral, m_portFirst, m_portLast, aborted>>

\* Allocate(boundNetDevice, localAddress, localPort, peerAddress, peerPort)
AllocateFull(boundNetDevice, localAddress, localPort, peerAddress, peerPort) ==
    /\ ~aborted
    /\ LET h == Len(m_endPoints) + 1
       IN  IF LookupFull(m_endPoints, boundNetDevice, localAddress, localPort,
                         peerAddress, peerPort)
           THEN /\ last' = Call("AllocateFull", boundNetDevice, localAddress, localPort,
                                peerAddress, peerPort, NullEndPoint, <<>>)
                /\ UNCHANGED m_endPoints
           ELSE /\ m_endPoints' =
                       Append(m_endPoints,
                              SetPeer(Ipv6EndPoint(localAddress, localPort),
                                      peerAddress, peerPort))
                /\ last' = Call("AllocateFull", boundNetDevice, localAddress, localPort,
                                peerAddress, peerPort, h, <<>>)
    /\ anyRun' = Broken
    /\ UNCHANGED <<m_ephemeral, m_portFirst, m_portLast, aborted>>

\* a release that leaves the end point in the list
Erase_Nothing(eps, i) == eps

\* a release that takes the head of the list
Erase_First(eps, i) == Tail(eps)

\* a release that takes the entry at the end of the list
Erase_Last(eps, i) == SubSeq(eps, 1, Len(eps) - 1)

\* m_endPoints.erase(i)
Erase(eps, i) == SubSeq(eps, 1, i - 1) \o SubSeq(eps, i + 1, Len(eps))

\* a release that sets the scan back to the start of the range
DeAllocate_RewindsScan(h) ==
    /\ ~aborted
    /\ Live(m_endPoints, h)
    /\ m_endPoints' = Erase(m_endPoints, h)
    /\ m_ephemeral' = m_portFirst
    /\ last' = Call("DeAllocate", NoDevice, AnyAddr, 0, AnyAddr, 0, h, <<>>)
    /\ anyRun' = Broken
    /\ UNCHANGED <<m_portFirst, m_portLast, aborted>>

\* DeAllocate(endPoint) of an end point the collection holds
DeAllocate(h) ==
    /\ ~aborted
    /\ Live(m_endPoints, h)
    /\ m_endPoints' = Erase(m_endPoints, h)
    /\ last' = Call("DeAllocate", NoDevice, AnyAddr, 0, AnyAddr, 0, h, <<>>)
    /\ anyRun' = Broken
    /\ UNCHANGED <<m_ephemeral, m_portFirst, m_portLast, aborted>>

(***************************************************************************)
(* The mutators of Ipv6EndPoint the socket layer calls on an end point it  *)
(* holds.                                                                  *)
(***************************************************************************)
BindToNetDevice(h, netdevice) ==
    /\ ~aborted
    /\ Live(m_endPoints, h)
    /\ m_endPoints' = [m_endPoints EXCEPT ![h].dev = netdevice]
    /\ last' = Call("BindToNetDevice", netdevice, AnyAddr, 0, AnyAddr, 0, h, <<>>)
    /\ anyRun' = Broken
    /\ UNCHANGED <<m_ephemeral, m_portFirst, m_portLast, aborted>>

SetRxEnabled(h, enabled) ==
    /\ ~aborted
    /\ Live(m_endPoints, h)
    /\ m_endPoints' = [m_endPoints EXCEPT ![h].rx = enabled]
    /\ last' = Call("SetRxEnabled", NoDevice, AnyAddr, 0, AnyAddr, 0, h, <<>>)
    /\ anyRun' = Broken
    /\ UNCHANGED <<m_ephemeral, m_portFirst, m_portLast, aborted>>

(***************************************************************************)
(* Lookup(daddr, dport, saddr, sport, incomingInterface).  An incoming     *)
(* interface is modelled by the device it belongs to (GetDevice()).        *)
(***************************************************************************)
\* a loop body that does not look at the bound device
LookupSkips_NoDeviceTest(e, daddr, dport, saddr, sport, incomingInterface) ==
    \/ ~e.rx
    \/ e.localPort # dport
    \/ ~(e.localAddr = daddr \/ e.localAddr = AnyAddr)
    \/ ~(e.peerPort = sport \/ e.peerPort = 0)
    \/ ~(e.peerAddr = saddr \/ e.peerAddr = AnyAddr)

\* a loop body that does not test IsRxEnabled
LookupSkips_NoRxTest(e, daddr, dport, saddr, sport, incomingInterface) ==
    \/ e.localPort # dport
    \/ /\ e.dev # NoDevice
       /\ (incomingInterface = NoInterface \/ e.dev # incomingInterface)
    \/ ~(e.localAddr = daddr \/ e.localAddr = AnyAddr)
    \/ ~(e.peerPort = sport \/ e.peerPort = 0)
    \/ ~(e.peerAddr = saddr \/ e.peerAddr = AnyAddr)

\* a loop body that takes the local address only when it is the destination
LookupSkips_NoLocalWildcard(e, daddr, dport, saddr, sport, incomingInterface) ==
    \/ ~e.rx
    \/ e.localPort # dport
    \/ /\ e.dev # NoDevice
       /\ (incomingInterface = NoInterface \/ e.dev # incomingInterface)
    \/ ~(e.localAddr = daddr)
    \/ ~(e.peerPort = sport \/ e.peerPort = 0)
    \/ ~(e.peerAddr = saddr \/ e.peerAddr = AnyAddr)

\* tests that let an end point on the all-routers address through for every
\* destination
LookupSkips_AllRoutersPasses(e, daddr, dport, saddr, sport, incomingInterface) ==
    \/ ~e.rx
    \/ e.localPort # dport
    \/ /\ e.dev # NoDevice
       /\ (incomingInterface = NoInterface \/ e.dev # incomingInterface)
    \/ ~(e.localAddr = daddr \/ e.localAddr = AnyAddr \/ e.localAddr = AllRouters)
    \/ ~(e.peerPort = sport \/ e.peerPort = 0)
    \/ ~(e.peerAddr = saddr \/ e.peerAddr = AnyAddr)

\* the `continue` tests of the loop body
LookupSkips(e, daddr, dport, saddr, sport, incomingInterface) ==
    \/ ~e.rx
    \/ e.localPort # dport
    \/ /\ e.dev # NoDevice
       /\ (incomingInterface = NoInterface \/ e.dev # incomingInterface)
    \/ ~(e.localAddr = daddr \/ e.localAddr = AnyAddr)
    \/ ~(e.peerPort = sport \/ e.peerPort = 0)
    \/ ~(e.peerAddr = saddr \/ e.peerAddr = AnyAddr)

\* the four push_back tests
InRetval1(e, daddr, saddr, sport) ==
    e.localAddr = AnyAddr /\ e.peerPort = 0 /\ e.peerAddr = AnyAddr

InRetval2(e, daddr, saddr, sport) ==
    /\ (e.localAddr = daddr \/ e.localAddr = AllRouters)
    /\ e.peerPort = 0
    /\ e.peerAddr = AnyAddr

InRetval3(e, daddr, saddr, sport) ==
    e.localAddr = AnyAddr /\ e.peerPort = sport /\ e.peerAddr = saddr

InRetval4(e, daddr, saddr, sport) ==
    e.localAddr = daddr /\ e.peerPort = sport /\ e.peerAddr = saddr

\* retvalN after the loop, N in 1..4, in scan order
Indices(eps) == [i \in 1..Len(eps) |-> i]

\* a loop that leaves at the first end point it has put into the bucket
Bucket_FirstOnly(eps, n, daddr, dport, saddr, sport, incomingInterface) ==
    LET all == SelectSeq(Indices(eps), LAMBDA i :
                   /\ ~LookupSkips(eps[i], daddr, dport, saddr, sport, incomingInterface)
                   /\ CASE n = 1 -> InRetval1(eps[i], daddr, saddr, sport)
                        [] n = 2 -> InRetval2(eps[i], daddr, saddr, sport)
                        [] n = 3 -> InRetval3(eps[i], daddr, saddr, sport)
                        [] n = 4 -> InRetval4(eps[i], daddr, saddr, sport))
    IN  IF all = <<>> THEN <<>> ELSE <<Head(all)>>

Bucket(eps, n, daddr, dport, saddr, sport, incomingInterface) ==
    SelectSeq(Indices(eps), LAMBDA i :
        /\ ~LookupSkips(eps[i], daddr, dport, saddr, sport, incomingInterface)
        /\ CASE n = 1 -> InRetval1(eps[i], daddr, saddr, sport)
             [] n = 2 -> InRetval2(eps[i], daddr, saddr, sport)
             [] n = 3 -> InRetval3(eps[i], daddr, saddr, sport)
             [] n = 4 -> InRetval4(eps[i], daddr, saddr, sport))

\* a selection that prefers the least exact match
MostExact_Reversed(r1, r2, r3, r4) ==
    IF r1 # <<>> THEN r1
    ELSE IF r2 # <<>> THEN r2
    ELSE IF r3 # <<>> THEN r3
    ELSE r4

\* a selection that puts the local-exact bucket above the peer-exact one
MostExact_LocalFirst(r1, r2, r3, r4) ==
    IF r4 # <<>> THEN r4
    ELSE IF r2 # <<>> THEN r2
    ELSE IF r3 # <<>> THEN r3
    ELSE r1

\* "Here we find the most exact match"
MostExact(r1, r2, r3, r4) ==
    IF r4 # <<>> THEN r4
    ELSE IF r3 # <<>> THEN r3
    ELSE IF r2 # <<>> THEN r2
    ELSE r1

LookupRetval(eps, daddr, dport, saddr, sport, incomingInterface) ==
    MostExact(Bucket(eps, 1, daddr, dport, saddr, sport, incomingInterface),
              Bucket(eps, 2, daddr, dport, saddr, sport, incomingInterface),
              Bucket(eps, 3, daddr, dport, saddr, sport, incomingInterface),
              Bucket(eps, 4, daddr, dport, saddr, sport, incomingInterface))

\* an abort test that lets two end points through
TooManyEndPoints_OffByOne(retval) == Len(retval) > 2

\* an abort test that takes the empty list for an error too
TooManyEndPoints_NotOne(retval) == Len(retval) # 1

\* NS_ABORT_MSG_IF(retval.size() > 1, ...)
TooManyEndPoints(retval) == Len(retval) > 1

Lookup(daddr, dport, saddr, sport, incomingInterface) ==
    /\ ~aborted
    /\ LET retval == LookupRetval(m_endPoints, daddr, dport, saddr, sport, incomingInterface)
       IN  IF TooManyEndPoints(retval)
           THEN /\ aborted' = TRUE
                /\ last' = Call("Lookup", incomingInterface, daddr, dport, saddr, sport,
                                NullEndPoint, <<>>)
           ELSE /\ aborted' = FALSE
                /\ last' = Call("Lookup", incomingInterface, daddr, dport, saddr, sport,
                                NullEndPoint, retval)
    /\ anyRun' = Broken
    /\ UNCHANGED <<m_endPoints, m_ephemeral, m_portFirst, m_portLast>>

(***************************************************************************)
(* SimpleLookup(dst, dport, src, sport): the loop from end point i on, with *)
(* the locals genericity and generic (an index, NullEndPoint for nullptr). *)
(***************************************************************************)
\* tmp: the number of wildcard addresses of the end point
Genericity(e) ==
    (IF e.localAddr = AnyAddr THEN 1 ELSE 0) + (IF e.peerAddr = AnyAddr THEN 1 ELSE 0)

\* "this is an exact match"
ExactMatch(e, dst, dport, src, sport) ==
    e.localPort = dport /\ e.localAddr = dst /\ e.peerPort = sport /\ e.peerAddr = src

\* a test that replaces the candidate by an equally generic one
MoreSpecific_OrEqual(tmp, genericity) == tmp <= genericity

\* tmp < genericity
MoreSpecific(tmp, genericity) == tmp < genericity

\* an early return that compares the local half of the tuple only
ReturnsExact_LocalOnly(e, generic, dst, dport, src, sport) ==
    e.localPort = dport /\ e.localAddr = dst

\* the `return *i` inside the loop
ReturnsExact(e, generic, dst, dport, src, sport) ==
    ExactMatch(e, dst, dport, src, sport)

RECURSIVE SimpleScan(_, _, _, _, _, _, _, _)
SimpleScan(eps, i, genericity, generic, dst, dport, src, sport) ==
    IF i > Len(eps)
    THEN generic
    ELSE IF eps[i].localPort # dport
    THEN SimpleScan(eps, i + 1, genericity, generic, dst, dport, src, sport)
    ELSE IF ReturnsExact(eps[i], generic, dst, dport, src, sport)
    THEN i
    ELSE IF MoreSpecific(Genericity(eps[i]), genericity)
    THEN SimpleScan(eps, i + 1, Genericity(eps[i]), i, dst, dport, src, sport)
    ELSE SimpleScan(eps, i + 1, genericity, generic, dst, dport, src, sport)

\* uint32_t genericity = 3; Ipv6EndPoint* generic = nullptr;
InitialGenericity == 3

SimpleLookupRetval(eps, dst, dport, src, sport) ==
    SimpleScan(eps, 1, InitialGenericity, NullEndPoint, dst, dport, src, sport)

\* a SimpleLookup that moves the end point it returns to the end of the list
SimpleLookup_MovesToBack(dst, dport, src, sport) ==
    /\ ~aborted
    /\ LET ret == SimpleLookupRetval(m_endPoints, dst, dport, src, sport)
       IN  /\ last' = Call("SimpleLookup", NoInterface, dst, dport, src, sport, ret, <<>>)
           /\ m_endPoints' = IF ret = NullEndPoint THEN m_endPoints
                             ELSE Erase(m_endPoints, ret) \o <<m_endPoints[ret]>>
    /\ anyRun' = Broken
    /\ UNCHANGED <<m_ephemeral, m_portFirst, m_portLast, aborted>>

SimpleLookup(dst, dport, src, sport) ==
    /\ ~aborted
    /\ last' = Call("SimpleLookup", NoInterface, dst, dport, src, sport,
                    SimpleLookupRetval(m_endPoints, dst, dport, src, sport), <<>>)
    /\ anyRun' = Broken
    /\ UNCHANGED <<m_endPoints, m_ephemeral, m_portFirst, m_portLast, aborted>>

(***************************************************************************)
(* What the caller of DeAllocate remembers.                                *)
(***************************************************************************)
\* no end point has been released, or another call has been made since
NoWatch == [port |-> 0, calls |-> 0, again |-> FALSE]

\* DeAllocate starts the watch of the released port; each Allocate() that
\* follows is counted until one returns that port again
WatchAfterCall ==
    watch' =
        IF last'.op = "DeAllocate"
        THEN [port |-> m_endPoints[last'.ret].localPort, calls |-> 0, again |-> FALSE]
        ELSE IF last'.op = "Allocate" /\ watch.port # 0 /\ ~watch.again
        THEN [port |-> watch.port, calls |-> watch.calls + 1,
              again |-> (last'.ret # NullEndPoint /\ last'.port = watch.port)]
        ELSE NoWatch

\* the pointer to a released end point: its storage is free (Dangling), or
\* operator new has handed it to the end point that is now at an index
NoPointer == -1
Dangling == 0

\* DeAllocate leaves the caller with a pointer to freed storage
StaleAfterErase(h) ==
    stale' = IF stale \in {NoPointer, Dangling} \/ stale = h THEN Dangling
             ELSE IF h < stale THEN stale - 1
             ELSE stale

\* operator new may or may not reuse the freed storage for the end point an
\* allocation appends
StaleAfterNew ==
    IF stale = Dangling /\ Len(m_endPoints') > Len(m_endPoints)
    THEN stale' \in {Dangling, Len(m_endPoints')}
    ELSE stale' = stale

\* DeAllocate(endPoint) with the pointer to a released end point: the loop
\* compares addresses
DeAllocateStale ==
    /\ ~aborted
    /\ stale # NoPointer
    /\ IF stale = Dangling
       THEN /\ UNCHANGED m_endPoints
            /\ last' = Call("DeAllocateStale", NoDevice, AnyAddr, 0, AnyAddr, 0,
                            NullEndPoint, <<>>)
       ELSE /\ m_endPoints' = Erase(m_endPoints, stale)
            /\ last' = Call("DeAllocateStale", NoDevice, AnyAddr, 0, AnyAddr, 0,
                            stale, <<>>)
    /\ stale' = Dangling
    /\ anyRun' = Broken
    /\ UNCHANGED <<m_ephemeral, m_portFirst, m_portLast, aborted>>

\* DeAllocate leaves the fields of the end point it has deleted to the
\* history; an allocation that makes an end point with these fields ends it
GoneAfterCall ==
    gone' =
        IF last'.op = "DeAllocate"
        THEN <<m_endPoints[last'.ret]>>
        ELSE IF /\ gone # <<>>
                /\ Len(m_endPoints') > Len(m_endPoints)
                /\ m_endPoints'[Len(m_endPoints')] = gone[1]
        THEN <<>>
        ELSE gone

\* the caller keeps no pointer and no watch
Untracked == UNCHANGED <<watch, stale, gone>>

(***************************************************************************)
(* The state after construction.  The constructor sets m_ephemeral and     *)
(* m_portFirst to 49152 and m_portLast to 65535; the model keeps a window  *)
(* of RangeSize ports at either end of that range, and the three-port      *)
(* range of the documented example.                                        *)
(***************************************************************************)
ExampleRange == <<PortFirstDefault, PortFirstDefault + 2>>
LowRange == <<PortFirstDefault, PortFirstDefault + RangeSize - 1>>
HighRange == <<PortLastDefault - RangeSize + 1, PortLastDefault>>
PortRanges == {ExampleRange, LowRange, HighRange}

Init ==
    /\ m_endPoints = <<>>
    /\ \E r \in PortRanges :
           /\ m_portFirst = r[1]
           /\ m_portLast = r[2]
           /\ m_ephemeral = r[1]
    /\ aborted = FALSE
    /\ last = NoCall
    /\ anyRun = <<>>
    /\ watch = NoWatch
    /\ stale = NoPointer
    /\ gone = <<>>

(***************************************************************************)
(* Specifications.                                                         *)
(***************************************************************************)
Devices == {Dev1, Dev2}
Pointers == 1..Len(m_endPoints)

\* ephemeral allocation, release and the mutators of the end points
NextEphemeral ==
    \/ Allocate /\ Untracked
    \/ AllocateAddr(AddrA) /\ Untracked
    \/ \E h \in Pointers : DeAllocate(h) /\ Untracked
    \/ \E h \in Pointers : BindToNetDevice(h, Dev1) /\ Untracked
    \/ \E h \in Pointers : SetRxEnabled(h, FALSE) /\ Untracked

SpecEphemeral == Init /\ [][NextEphemeral]_vars

\* allocation on a given port with and without a device, binding, arrival
NextBound ==
    \/ /\ Len(m_endPoints) < MaxBound
       /\ \E d \in Devices \cup {NoDevice} :
              \/ AllocateDevPort(d, PortP)
              \/ AllocateDevAddrPort(d, AddrA, PortP)
              \/ AllocateFull(d, AddrA, PortP, AddrB, PortQ)
       /\ Untracked
    \/ \E h \in Pointers : DeAllocate(h) /\ Untracked
    \/ \E h \in Pointers, d \in Devices \cup {NoDevice} :
           BindToNetDevice(h, d) /\ Untracked
    \/ \E i \in Devices \cup {NoInterface} :
           Lookup(AddrA, PortP, AddrB, PortQ, i) /\ Untracked

SpecBound == Init /\ [][NextBound]_vars

\* allocation of wildcard and connected end points on one port, arrival
NextPrecedence ==
    \/ /\ Len(m_endPoints) < MaxPrec
       /\ \E a \in {AnyAddr, AddrA} :
              \/ AllocateDevAddrPort(NoDevice, a, PortP)
              \/ AllocateFull(NoDevice, a, PortP, AddrB, PortQ)
       /\ Untracked
    \/ \E h \in Pointers : DeAllocate(h) /\ Untracked
    \/ \E i \in {NoInterface, Dev1} :
           Lookup(AddrA, PortP, AddrB, PortQ, i) /\ Untracked

SpecPrecedence == Init /\ [][NextPrecedence]_vars

\* the constructed state with the window at the top of the default range
InitHigh == Init /\ <<m_portFirst, m_portLast>> = HighRange

\* end points on one port with and without peer, reception switched off and
\* on, arrivals looked up both ways
NextArrival ==
    \/ /\ Len(m_endPoints) < MaxArrival
       /\ \E a \in {AnyAddr, AddrA} :
              \/ AllocateDevAddrPort(NoDevice, a, PortP)
              \/ AllocateFull(NoDevice, a, PortP, AddrB, PortQ)
       /\ Untracked
    \/ \E h \in Pointers : DeAllocate(h) /\ Untracked
    \/ \E h \in Pointers, b \in BOOLEAN : SetRxEnabled(h, b) /\ Untracked
    \/ \E dst \in {AddrA, AddrB}, dport \in {PortP, PortQ}, src \in {AddrA, AddrB},
          sport \in {PortP, PortQ}, i \in {NoInterface, Dev1} :
           Lookup(dst, dport, src, sport, i) /\ Untracked
    \/ \E dst \in {AddrA, AddrB}, dport \in {PortP, PortQ}, src \in {AddrA, AddrB},
          sport \in {PortP, PortQ} :
           SimpleLookup(dst, dport, src, sport) /\ Untracked

SpecArrival == InitHigh /\ [][NextArrival]_vars

\* end points on one address and port, bound to a device and switched off
\* and on, and arrivals for them
NextDisabled ==
    \/ /\ Len(m_endPoints) < MaxDisabled
       /\ \/ AllocateDevAddrPort(NoDevice, AddrA, PortP)
          \/ AllocateFull(NoDevice, AddrA, PortP, AddrB, PortQ)
       /\ Untracked
    \/ \E h \in Pointers : DeAllocate(h) /\ Untracked
    \/ \E h \in Pointers : BindToNetDevice(h, Dev1) /\ Untracked
    \/ \E h \in Pointers, b \in BOOLEAN : SetRxEnabled(h, b) /\ Untracked
    \/ \E i \in {NoInterface, Dev1} :
           Lookup(AddrA, PortP, AddrB, PortQ, i) /\ Untracked

SpecDisabled == InitHigh /\ [][NextDisabled]_vars

\* ephemeral allocation and release by a caller that keeps the pointer it
\* released and watches for the released port
NextRelease ==
    \/ Allocate /\ WatchAfterCall /\ StaleAfterNew /\ UNCHANGED gone
    \/ AllocateAddr(AddrA) /\ WatchAfterCall /\ StaleAfterNew /\ UNCHANGED gone
    \/ \E h \in Pointers :
           DeAllocate(h) /\ WatchAfterCall /\ StaleAfterErase(h) /\ UNCHANGED gone
    \/ DeAllocateStale /\ WatchAfterCall /\ UNCHANGED gone

SpecRelease == Init /\ [][NextRelease]_vars

\* the five allocations, with port 0 and with a port of the ephemeral range,
\* and the release; no other call
Peers == {<<AnyAddr, 0>>, <<AddrB, PortQ>>}

NextAlloc ==
    \/ /\ Len(m_endPoints) < MaxAlloc
       /\ \/ Allocate
          \/ AllocateAddr(AddrA)
          \/ \E d \in {NoDevice, Dev1}, port \in {0, m_portLast} :
                 \/ AllocateDevPort(d, port)
                 \/ AllocateDevAddrPort(d, AddrA, port)
                 \/ \E a \in {AnyAddr, AddrA}, peer \in Peers :
                        AllocateFull(d, a, port, peer[1], peer[2])
       /\ Untracked
    \/ \E h \in Pointers : DeAllocate(h) /\ Untracked

SpecAlloc == InitHigh /\ [][NextAlloc]_vars

\* the two- and the three-argument allocation on one port, with end points
\* bound to a device
NextDelegate ==
    \/ /\ Len(m_endPoints) < MaxDelegate
       /\ \E d \in {NoDevice, Dev1} :
              \/ AllocateDevPort(d, PortP)
              \/ \E a \in {AnyAddr, AddrA} : AllocateDevAddrPort(d, a, PortP)
       /\ Untracked
    \/ \E h \in Pointers : DeAllocate(h) /\ Untracked
    \/ \E h \in Pointers : BindToNetDevice(h, Dev1) /\ Untracked

SpecDelegate == InitHigh /\ [][NextDelegate]_vars

\* end points for the local-exact and the peer-exact bucket and one with a
\* peer port but no peer address, bound to a device, and arrivals for them
NextBuckets ==
    \/ /\ Len(m_endPoints) < MaxBuckets
       /\ \/ AllocateDevAddrPort(NoDevice, AddrA, PortP)
          \/ AllocateFull(NoDevice, AnyAddr, PortP, AddrB, PortQ)
          \/ AllocateFull(NoDevice, AddrA, PortP, AnyAddr, PortQ)
       /\ Untracked
    \/ \E h \in Pointers : DeAllocate(h) /\ Untracked
    \/ \E h \in Pointers : BindToNetDevice(h, Dev1) /\ Untracked
    \/ \E i \in {NoInterface, Dev1} :
           Lookup(AddrA, PortP, AddrB, PortQ, i) /\ Untracked
    \/ SimpleLookup(AddrA, PortP, AddrB, PortQ) /\ Untracked

SpecBuckets == InitHigh /\ [][NextBuckets]_vars

\* end points on the wildcard, the all-routers and a unicast address, and
\* arrivals for the all-routers and the unicast address
NextRouters ==
    \/ /\ Len(m_endPoints) < MaxRouters
       /\ \/ \E a \in {AnyAddr, AllRouters, AddrA} :
                 AllocateDevAddrPort(NoDevice, a, PortP)
          \/ \E a \in {AllRouters, AddrA} :
                 AllocateFull(NoDevice, a, PortP, AddrB, PortQ)
       /\ Untracked
    \/ \E h \in Pointers : DeAllocate(h) /\ Untracked
    \/ \E daddr \in {AllRouters, AddrA} :
           Lookup(daddr, PortP, AddrB, PortQ, NoInterface) /\ Untracked

SpecRouters == InitHigh /\ [][NextRouters]_vars

\* allocation, release and arrival with no call of a mutator of an end
\* point, by a caller that remembers the end point it released last
NextPlain ==
    \/ /\ Len(m_endPoints) < MaxPlain
       /\ \/ Allocate
          \/ \E d \in {NoDevice, Dev1} :
                 \/ AllocateDevPort(d, PortP)
                 \/ AllocateDevAddrPort(d, AddrA, PortP)
                 \/ \E a \in {AnyAddr, AddrA}, peer \in Peers :
                        AllocateFull(d, a, PortP, peer[1], peer[2])
       /\ GoneAfterCall /\ UNCHANGED <<watch, stale>>
    \/ \E h \in Pointers : DeAllocate(h) /\ GoneAfterCall /\ UNCHANGED <<watch, stale>>
    \/ \E i \in {NoInterface, Dev1} :
           Lookup(AddrA, PortP, AddrB, PortQ, i) /\ Untracked
    \/ SimpleLookup(AddrA, PortP, AddrB, PortQ) /\ Untracked

SpecPlain == InitHigh /\ [][NextPlain]_vars

(***************************************************************************)
(* Properties.                                                             *)
(***************************************************************************)
RangeCount == m_portLast - m_portFirst + 1
InRange(port) == m_portFirst <= port /\ port <= m_portLast

\* C1: from the empty demultiplexer with a range of N ports, the first N
\* consecutive Allocate() calls succeed with pairwise distinct local ports,
\* each held by the end point the call appended, and call N+1 fails.
C1_FirstNSucceedThenExhausted ==
    anyRun # Broken =>
        /\ Len(m_endPoints) = IF Len(anyRun) <= RangeCount THEN Len(anyRun) ELSE RangeCount
        /\ \A i \in 1..Len(anyRun) :
               IF i <= RangeCount
               THEN /\ anyRun[i] # 0
                    /\ m_endPoints[i].localPort = anyRun[i]
                    /\ \A j \in 1..(i - 1) : anyRun[j] # anyRun[i]
               ELSE anyRun[i] = 0

\* the call after the N-th has been made, at the top of the port space
C1_Witness ==
    /\ anyRun # Broken
    /\ Len(anyRun) = RangeCount + 1
    /\ m_portLast = PortLastDefault
    /\ last.op = "Allocate" /\ last.ret = NullEndPoint

\* C2: with the range [49152, 49154] and m_ephemeral = 49152, Allocate()
\* returns the ports 49153, 49154, 49152 in that order and then fails.
C2_ExampleOrder ==
    (anyRun # Broken /\ <<m_portFirst, m_portLast>> = ExampleRange) =>
        /\ Len(anyRun) <= 4
        /\ anyRun = SubSeq(<<PortFirstDefault + 1, PortFirstDefault + 2, PortFirstDefault, 0>>,
                           1, Len(anyRun))

C2_Witness ==
    /\ <<m_portFirst, m_portLast>> = ExampleRange
    /\ anyRun = <<PortFirstDefault + 1, PortFirstDefault + 2, PortFirstDefault, 0>>
    /\ last.op = "Allocate" /\ last.ret = NullEndPoint

\* C3: the end point a successful Allocate() or Allocate(address) returns has
\* a local port inside the range that no other end point of the collection
\* holds, whatever the other's address, device or rx flag.
C3_EphemeralPortFresh ==
    (last.op \in {"Allocate", "AllocateAddr"} /\ last.ret # NullEndPoint) =>
        /\ last.ret = Len(m_endPoints)
        /\ m_endPoints[last.ret].localPort = last.port
        /\ InRange(last.port)
        /\ \A i \in 1..Len(m_endPoints) :
               i # last.ret => m_endPoints[i].localPort # last.port

\* an ephemeral allocation made while a disabled, device-bound end point with
\* another local address holds a port of the range
C3_Witness ==
    /\ last.op = "Allocate" /\ last.ret # NullEndPoint
    /\ \E i \in 1..Len(m_endPoints) :
           /\ i # last.ret
           /\ ~m_endPoints[i].rx
           /\ m_endPoints[i].dev = Dev1
           /\ m_endPoints[i].localAddr = AddrA
           /\ InRange(m_endPoints[i].localPort)

\* end point i holds the local address and port of the last call
SameLocal(eps, i, call) ==
    eps[i].localAddr = call.addr /\ eps[i].localPort = call.port

\* end point i holds the local and peer address and port of the last call
SameTuple(eps, i, call) ==
    /\ SameLocal(eps, i, call)
    /\ eps[i].peerAddr = call.paddr
    /\ eps[i].peerPort = call.pport

\* C4: Allocate(device, address, port) fails, allocating nothing, exactly
\* when an end point has the same local port and address and is bound to the
\* requested device or to none; otherwise it appends one end point with that
\* address and port and the wildcard peer.
C4_LocalConflictIff ==
    [][last'.op = "AllocateDevAddrPort" =>
          IF \E i \in 1..Len(m_endPoints) :
                 /\ SameLocal(m_endPoints, i, last')
                 /\ m_endPoints[i].dev \in {last'.dev, NoDevice}
          THEN last'.ret = NullEndPoint /\ m_endPoints' = m_endPoints
          ELSE /\ last'.ret = Len(m_endPoints) + 1
               /\ Len(m_endPoints') = Len(m_endPoints) + 1
               /\ SubSeq(m_endPoints', 1, Len(m_endPoints)) = m_endPoints
               /\ SameLocal(m_endPoints', last'.ret, last')
               /\ m_endPoints'[last'.ret].peerAddr = AnyAddr
               /\ m_endPoints'[last'.ret].peerPort = 0]_vars

\* a request for Dev1 succeeded beside an end point on the same address and
\* port that is bound to Dev2
C4_Witness ==
    /\ last.op = "AllocateDevAddrPort" /\ last.dev = Dev1
    /\ last.ret = Len(m_endPoints) /\ last.ret > 1
    /\ \E i \in 1..(last.ret - 1) :
           SameLocal(m_endPoints, i, last) /\ m_endPoints[i].dev = Dev2

\* C5: the device conflict test of Allocate(device, address, port) is
\* symmetric: no call succeeds while an end point on the same address and
\* port exists and exactly one of the two (the request, the end point) is
\* restricted to a device.
C5_SymmetricDeviceConflict ==
    (last.op = "AllocateDevAddrPort" /\ last.ret # NullEndPoint) =>
        \A i \in 1..(last.ret - 1) :
            SameLocal(m_endPoints, i, last) =>
                ((m_endPoints[i].dev = NoDevice) <=> (last.dev = NoDevice))

\* C6: while an end point with the 4-tuple of the call is in the collection
\* and is bound to the requested device or to none, the five-argument
\* Allocate returns nullptr and leaves the collection as it is.
C6_DuplicateFullFails ==
    [][(/\ last'.op = "AllocateFull"
        /\ \E i \in 1..Len(m_endPoints) :
               /\ SameTuple(m_endPoints, i, last')
               /\ m_endPoints[i].dev \in {last'.dev, NoDevice})
       => (last'.ret = NullEndPoint /\ m_endPoints' = m_endPoints)]_vars

\* a connected allocation for Dev2 refused because of a connected end point
\* without device
C6_Witness ==
    /\ last.op = "AllocateFull" /\ last.dev = Dev2 /\ last.ret = NullEndPoint
    /\ \E i \in 1..Len(m_endPoints) :
           SameTuple(m_endPoints, i, last) /\ m_endPoints[i].dev = NoDevice
    /\ \A i \in 1..Len(m_endPoints) :
           SameTuple(m_endPoints, i, last) => m_endPoints[i].dev # Dev2

\* the end points of the precedence scenario
IsPortOnly(e) ==
    e = Ipv6EndPoint(AnyAddr, PortP)
IsLocalExact(e) ==
    e = Ipv6EndPoint(AddrA, PortP)
IsPeerExact(e) ==
    e = SetPeer(Ipv6EndPoint(AnyAddr, PortP), AddrB, PortQ)
IsFullExact(e) ==
    e = SetPeer(Ipv6EndPoint(AddrA, PortP), AddrB, PortQ)

HoldsAllFour ==
    /\ \E i \in 1..Len(m_endPoints) : IsPortOnly(m_endPoints[i])
    /\ \E i \in 1..Len(m_endPoints) : IsLocalExact(m_endPoints[i])
    /\ \E i \in 1..Len(m_endPoints) : IsPeerExact(m_endPoints[i])
    /\ \E i \in 1..Len(m_endPoints) : IsFullExact(m_endPoints[i])

LastIsArrival ==
    /\ last.op = "Lookup"
    /\ <<last.addr, last.port, last.paddr, last.pport>> = <<AddrA, PortP, AddrB, PortQ>>

\* C7: with the rx-enabled end points (any, P), (A, P), (any, P, B, Q) and
\* (A, P, B, Q), none bound to a device, Lookup(A, P, B, Q) does not abort
\* and returns the end point (A, P, B, Q) alone.
C7_FullExactWins ==
    (LastIsArrival /\ HoldsAllFour) =>
        /\ ~aborted
        /\ Len(last.found) = 1
        /\ IsFullExact(m_endPoints[last.found[1]])

\* the four end points, more generic ones scanned before and after the
\* fully specified one
C7_Witness ==
    /\ LastIsArrival /\ HoldsAllFour
    /\ Len(m_endPoints) = 4
    /\ IsFullExact(m_endPoints[2])
    /\ last.found = <<2>>

\* the end points of the highest-numbered bucket that is not empty
TopBucket(eps, call) ==
    LET b(n) == Bucket(eps, n, call.addr, call.port, call.paddr, call.pport, call.dev)
        filled == {n \in 1..4 : b(n) # <<>>}
    IN  IF filled = {} THEN <<>>
        ELSE b(CHOOSE n \in filled : \A k \in filled : k <= n)

\* C8: Lookup returns no more than one end point; it ends in the abort
\* exactly when the highest-numbered non-empty bucket holds more than one,
\* and otherwise returns that bucket.
C8_AtMostOneOrAbort ==
    last.op = "Lookup" =>
        /\ aborted <=> Len(TopBucket(m_endPoints, last)) > 1
        /\ Len(last.found) <= 1
        /\ ~aborted => last.found = TopBucket(m_endPoints, last)

\* an arrival aborted on two end points of one bucket
C8_Witness ==
    /\ last.op = "Lookup" /\ aborted
    /\ Len(TopBucket(m_endPoints, last)) = 2
    /\ Len(m_endPoints) = 3

\* C9: Lookup returns an end point bound to a device only for an arrival
\* with an incoming interface of that device.
C9_DeviceScoping ==
    (last.op = "Lookup" /\ ~aborted) =>
        \A k \in 1..Len(last.found) :
            m_endPoints[last.found[k]].dev # NoDevice =>
                /\ last.dev # NoInterface
                /\ last.dev = m_endPoints[last.found[k]].dev

\* an arrival on Dev2 that leaves out an end point bound to Dev1 whose tuple
\* matches exactly
C9_Witness ==
    /\ last.op = "Lookup" /\ ~aborted
    /\ last.dev = Dev2
    /\ \E i \in 1..Len(m_endPoints) :
           /\ m_endPoints[i] = [SetPeer(Ipv6EndPoint(AddrA, PortP), AddrB, PortQ)
                                   EXCEPT !.dev = Dev1]
           /\ \A k \in 1..Len(last.found) : last.found[k] # i

AllocatedOnDevice ==
    /\ last.op \in {"AllocateDevPort", "AllocateDevAddrPort", "AllocateFull"}
    /\ last.dev # NoDevice
    /\ last.ret # NullEndPoint

Enabled(eps) == SelectSeq(eps, LAMBDA e : e.rx)

\* the end points a list of indices points to
Deref(eps, idx) == [k \in 1..Len(idx) |-> eps[idx[k]]]

\* C11: an end point with rx switched off is in no result of Lookup and
\* takes no part in the abort: Lookup ends as it does on the collection
\* without the disabled end points.
C11_DisabledInvisible ==
    last.op = "Lookup" =>
        LET on == Enabled(m_endPoints)
            ref == LookupRetval(on, last.addr, last.port, last.paddr, last.pport, last.dev)
        IN  /\ \A k \in 1..Len(last.found) : m_endPoints[last.found[k]].rx
            /\ aborted <=> Len(ref) > 1
            /\ ~aborted => Deref(m_endPoints, last.found) = Deref(on, ref)

\* two end points of one bucket, which abort the arrival when both
\* receive; one is switched off and the arrival is given to the other
C11_Witness ==
    /\ last.op = "Lookup" /\ ~aborted /\ Len(last.found) = 1
    /\ TooManyEndPoints(LookupRetval([i \in 1..Len(m_endPoints) |->
                                         [m_endPoints[i] EXCEPT !.rx = TRUE]],
                                     last.addr, last.port, last.paddr, last.pport,
                                     last.dev))
    /\ \E j \in 1..Len(m_endPoints) : ~m_endPoints[j].rx

\* C12: SimpleLookup returns no end point whose rx is switched off.
C12_SimpleLookupSkipsDisabled ==
    (last.op = "SimpleLookup" /\ last.ret # NullEndPoint) => m_endPoints[last.ret].rx

NoBucketFilled(eps, call) ==
    \A n \in 1..4 :
        Bucket(eps, n, call.addr, call.port, call.paddr, call.pport, call.dev) = <<>>

\* C13: when no end point qualifies for any bucket, Lookup returns the empty
\* list and does not abort.
C13_NoMatchIsEmpty ==
    (last.op = "Lookup" /\ NoBucketFilled(m_endPoints, last)) =>
        (~aborted /\ last.found = <<>>)

\* an arrival on a port an enabled end point holds, for another address
C13_Witness ==
    /\ last.op = "Lookup" /\ ~aborted /\ last.found = <<>>
    /\ NoBucketFilled(m_endPoints, last)
    /\ \E i \in 1..Len(m_endPoints) :
           m_endPoints[i].rx /\ m_endPoints[i].localPort = last.port

\* C14: with the single end point (any, P, any, 0), enabled and without
\* device, Lookup with dport = P returns that end point for every
\* destination, source, source port and incoming interface.
C14_PortOnlyMatchesAll ==
    (/\ last.op = "Lookup"
     /\ last.port = PortP
     /\ m_endPoints = <<Ipv6EndPoint(AnyAddr, PortP)>>)
    => (~aborted /\ last.found = <<1>>)

C14_Witness ==
    /\ m_endPoints = <<Ipv6EndPoint(AnyAddr, PortP)>>
    /\ last = Call("Lookup", NoInterface, AddrA, PortP, AddrB, PortQ, NullEndPoint, <<1>>)

HasExact(eps, call) ==
    \E i \in 1..Len(eps) : ExactMatch(eps[i], call.addr, call.port, call.paddr, call.pport)

\* C15: when an end point has the tuple (dst, dport, src, sport),
\* SimpleLookup returns an end point with that tuple, whatever precedes it.
C15_ExactHitReturned ==
    (last.op = "SimpleLookup" /\ HasExact(m_endPoints, last)) =>
        /\ last.ret # NullEndPoint
        /\ ExactMatch(m_endPoints[last.ret], last.addr, last.port, last.paddr, last.pport)

\* the exact end point comes after two more generic ones on the same port
C15_Witness ==
    /\ last.op = "SimpleLookup" /\ last.ret = 3
    /\ ExactMatch(m_endPoints[3], last.addr, last.port, last.paddr, last.pport)
    /\ \A i \in 1..2 : m_endPoints[i].localPort = last.port /\ Genericity(m_endPoints[i]) > 0

\* C16: without exact hit, SimpleLookup returns the end point of lowest
\* genericity among those on the port, the first in scan order among equals,
\* and nullptr exactly when no end point is on the port.
C16_LowestGenericityFirst ==
    (last.op = "SimpleLookup" /\ ~HasExact(m_endPoints, last)) =>
        LET onPort == {i \in 1..Len(m_endPoints) : m_endPoints[i].localPort = last.port}
        IN  IF onPort = {}
            THEN last.ret = NullEndPoint
            ELSE /\ last.ret \in onPort
                 /\ \A j \in onPort :
                        \/ Genericity(m_endPoints[last.ret]) < Genericity(m_endPoints[j])
                        \/ /\ Genericity(m_endPoints[last.ret]) = Genericity(m_endPoints[j])
                           /\ last.ret <= j

\* a more generic end point first, then two equally generic ones
C16_Witness ==
    /\ last.op = "SimpleLookup" /\ ~HasExact(m_endPoints, last)
    /\ Len(m_endPoints) = 3 /\ last.ret = 2
    /\ \A i \in 1..3 : m_endPoints[i].localPort = last.port
    /\ Genericity(m_endPoints[1]) > Genericity(m_endPoints[2])
    /\ Genericity(m_endPoints[2]) = Genericity(m_endPoints[3])

\* C17: after Allocate() has returned an end point with port p and
\* DeAllocate has released it, no end point holds p, and of the Allocate()
\* calls that follow with no other call between them, none fails before one
\* returns p, which happens within as many calls as the range has ports.
C17_ReleasedPortComesBack ==
    watch.port # 0 =>
        /\ watch.again \/ \A i \in 1..Len(m_endPoints) : m_endPoints[i].localPort # watch.port
        /\ last.op = "Allocate" => last.ret # NullEndPoint
        /\ watch.calls <= RangeCount
        /\ watch.calls = RangeCount => watch.again

\* the released port comes back after the scan has gone round the whole
\* range of the documented example
C17_Witness ==
    /\ watch.again
    /\ watch.calls = RangeCount
    /\ <<m_portFirst, m_portLast>> = ExampleRange
    /\ last.op = "Allocate" /\ last.port = watch.port

\* the collection after the entry at index h has gone: the entries before
\* and after it in their order
RemovedAt(h) ==
    /\ Len(m_endPoints') = Len(m_endPoints) - 1
    /\ \A i \in 1..Len(m_endPoints') :
           m_endPoints'[i] = m_endPoints[IF i < h THEN i ELSE i + 1]
    /\ UNCHANGED <<m_ephemeral, m_portFirst, m_portLast>>

\* C18 (as the code has it): DeAllocate removes the one entry whose address
\* is the pointer and leaves the other entries, their order and m_ephemeral;
\* with the pointer to a released end point it changes nothing while the
\* storage is free, and removes the end point that has taken the storage
\* otherwise.
C18_RemovesEntryAtAddress ==
    [][/\ last'.op = "DeAllocate" => RemovedAt(last'.ret)
       /\ last'.op = "DeAllocateStale" =>
              IF stale = Dangling
              THEN UNCHANGED <<m_endPoints, m_ephemeral, m_portFirst, m_portLast>>
              ELSE RemovedAt(stale)]_vars

\* the second DeAllocate of a pointer has removed a later end point
C18_Witness ==
    /\ last.op = "DeAllocateStale"
    /\ last.ret # NullEndPoint
    /\ Len(m_endPoints) > 0

\* C18: DeAllocate removes the one entry identical to the end point and
\* leaves the other entries, their order and m_ephemeral; a second DeAllocate
\* of the same end point changes nothing.
C18_SecondDeAllocateNoOp ==
    [][/\ last'.op = "DeAllocate" => RemovedAt(last'.ret)
       /\ last'.op = "DeAllocateStale" =>
              UNCHANGED <<m_endPoints, m_ephemeral, m_portFirst, m_portLast>>]_vars

\* C19: no end point in the collection has local port 0.
C19_NoPortZero ==
    \A i \in 1..Len(m_endPoints) : m_endPoints[i].localPort # 0

\* the five fields that tell end points apart
Tuple(e) == <<e.localAddr, e.localPort, e.peerAddr, e.peerPort, e.dev>>

\* C20: after allocations and releases only, no two distinct end points of
\* the collection have the same local address, local port, peer address,
\* peer port and bound device.
C20_TuplesDistinct ==
    \A i, j \in 1..Len(m_endPoints) :
        i # j => Tuple(m_endPoints[i]) # Tuple(m_endPoints[j])

\* two end points on one address and port that differ in the peer, and a
\* refused allocation of the tuple of the second
C20_Witness ==
    /\ Len(m_endPoints) = 2
    /\ m_endPoints[1].localAddr = m_endPoints[2].localAddr
    /\ m_endPoints[1].localPort = m_endPoints[2].localPort
    /\ last.op = "AllocateFull" /\ last.ret = NullEndPoint
    /\ <<last.addr, last.port, last.paddr, last.pport, NoDevice>> = Tuple(m_endPoints[2])

AllocateOps ==
    {"Allocate", "AllocateAddr", "AllocateDevPort", "AllocateDevAddrPort", "AllocateFull"}

\* every port of the range is the local port of an end point
Exhausted(eps) ==
    \A p \in m_portFirst..m_portLast : \E i \in 1..Len(eps) : eps[i].localPort = p

\* C21: an allocation that fails, for want of a free port or for a
\* duplicate, leaves the collection and m_ephemeral as they were before the
\* call.
C21_FailedAllocationNoEffect ==
    [][(last'.op \in AllocateOps /\ last'.ret = NullEndPoint) =>
           UNCHANGED <<m_endPoints, m_ephemeral, m_portFirst, m_portLast>>]_vars

\* Allocate() has failed with the whole range in use
C21_Witness ==
    /\ last.op = "Allocate" /\ last.ret = NullEndPoint
    /\ Exhausted(m_endPoints)
    /\ Len(m_endPoints) = RangeCount

\* what Allocate(device, address, port) does to the collection eps
LocalConflict(eps, dev, addr, port) ==
    LookupLocal(eps, dev, addr, port) \/ LookupLocal(eps, NoDevice, addr, port)

AfterLocal(eps, dev, addr, port) ==
    IF LocalConflict(eps, dev, addr, port) THEN eps
    ELSE Append(eps, Ipv6EndPoint(addr, port))

\* C22: Allocate(device, port) does what Allocate(device, any, port) does
\* from the same state: both fail or both succeed, and they leave the same
\* collection.
C22_DevPortDelegates ==
    [][/\ last'.op = "AllocateDevPort" =>
              /\ m_endPoints' = AfterLocal(m_endPoints, last'.dev, AnyAddr, last'.port)
              /\ last'.ret = NullEndPoint <=>
                     LocalConflict(m_endPoints, last'.dev, AnyAddr, last'.port)
       /\ last'.op = "AllocateDevAddrPort" =>
              /\ m_endPoints' = AfterLocal(m_endPoints, last'.dev, last'.addr, last'.port)
              /\ last'.ret = NullEndPoint <=>
                     LocalConflict(m_endPoints, last'.dev, last'.addr, last'.port)]_vars

\* the two-argument form refused on the device a wildcard end point is
\* bound to
C22_Witness ==
    /\ last = Call("AllocateDevPort", Dev1, AnyAddr, PortP, AnyAddr, 0, NullEndPoint, <<>>)
    /\ m_endPoints = <<[Ipv6EndPoint(AnyAddr, PortP) EXCEPT !.dev = Dev1]>>

EphemeralOps == {"Allocate", "AllocateAddr"}

PortInUse(eps, port) == \E i \in 1..Len(eps) : eps[i].localPort = port

\* the k-th port after `port` in the cyclic order of the range; the
\* RangeCount-th is `port` itself
CyclicAfter(port, k) == m_portFirst + ((port - m_portFirst + k) % RangeCount)

\* the first port after `port` in cyclic order that no end point of eps
\* uses, 0 when there is none
FirstFreeAfter(eps, port) ==
    LET free == {k \in 1..RangeCount : ~PortInUse(eps, CyclicAfter(port, k))}
    IN  IF free = {} THEN 0
        ELSE CyclicAfter(port, CHOOSE k \in free : \A j \in free : k <= j)

\* C23: a successful ephemeral allocation returns the first unused port in
\* cyclic order strictly after m_ephemeral, with m_ephemeral itself last,
\* and stores it in m_ephemeral; it returns the old m_ephemeral only when
\* every other port of the range is in use.
C23_FirstFreeAfterEphemeral ==
    [][(last'.op \in EphemeralOps /\ last'.ret # NullEndPoint) =>
           /\ last'.port = FirstFreeAfter(m_endPoints, m_ephemeral)
           /\ m_ephemeral' = last'.port
           /\ last'.port = m_ephemeral =>
                  \A p \in m_portFirst..m_portLast :
                      p # m_ephemeral => PortInUse(m_endPoints, p)]_vars

\* the only end point is released and the next Allocate() returns the port
\* after the released one
C23_Witness ==
    /\ Len(m_endPoints) = 1
    /\ last.op = "Allocate" /\ last.ret = 1
    /\ watch.calls = 1 /\ ~watch.again
    /\ last.port = CyclicAfter(watch.port, 1)

\* C24: Allocate() and Allocate(address) fail exactly when every port of
\* the range is the local port of an end point, wherever m_ephemeral stands
\* in the range.
C24_FailsIffExhausted ==
    [][last'.op \in EphemeralOps =>
           /\ InRange(m_ephemeral)
           /\ last'.ret = NullEndPoint <=> Exhausted(m_endPoints)]_vars

\* a failure with m_ephemeral at the end of the range
C24_Witness ==
    /\ last.op = "AllocateAddr" /\ last.ret = NullEndPoint
    /\ Exhausted(m_endPoints)
    /\ m_ephemeral = m_portLast

\* C25: the candidate after 65535 is 0 in uint16_t, which is below
\* m_portFirst and replaced by it; a successful scan yields a port of the
\* range, never 0, and 0 comes back only when the range is exhausted.
C25_OverflowWrapsToFirst ==
    [][last'.op \in EphemeralOps =>
           /\ last'.ret # NullEndPoint =>
                  /\ InRange(last'.port) /\ last'.port # 0
                  /\ m_endPoints'[last'.ret].localPort = last'.port
           /\ last'.ret = NullEndPoint => Exhausted(m_endPoints)
           /\ (m_ephemeral = PortModulus - 1 /\ ~PortInUse(m_endPoints, m_portFirst)) =>
                  last'.port = m_portFirst]_vars

\* the scan has gone from 65535 over 0 to m_portFirst
C25_Witness ==
    /\ m_portLast = PortModulus - 1
    /\ Len(m_endPoints) = 2
    /\ m_endPoints[1].localPort = m_portLast
    /\ last.op = "Allocate" /\ last.ret = 2 /\ last.port = m_portFirst

\* bucket n of the arrival `call` over the collection eps
BucketOf(eps, n, call) ==
    Bucket(eps, n, call.addr, call.port, call.paddr, call.pport, call.dev)

\* C26: Lookup answers from the highest-numbered bucket that is not empty,
\* 4 before 3 before 2 before 1: it returns that bucket when it holds one
\* end point and aborts when it holds more, whatever the lower buckets hold.
C26_HighestBucketDecides ==
    last.op = "Lookup" =>
        \A n \in 1..4 :
            (/\ BucketOf(m_endPoints, n, last) # <<>>
             /\ \A k \in (n + 1)..4 : BucketOf(m_endPoints, k, last) = <<>>)
            => /\ Len(BucketOf(m_endPoints, n, last)) = 1 =>
                      (~aborted /\ last.found = BucketOf(m_endPoints, n, last))
               /\ Len(BucketOf(m_endPoints, n, last)) > 1 => aborted

\* two local-exact end points and one peer-exact end point: the arrival goes
\* to the peer-exact one without abort
C26_Witness ==
    /\ last.op = "Lookup" /\ ~aborted
    /\ Len(BucketOf(m_endPoints, 2, last)) = 2
    /\ Len(BucketOf(m_endPoints, 3, last)) = 1
    /\ last.found = BucketOf(m_endPoints, 3, last)

\* C27: every end point that passes the tests of the loop is put into at
\* least one of the four buckets.
C27_SurvivorInSomeBucket ==
    last.op = "Lookup" =>
        \A i \in 1..Len(m_endPoints) :
            ~LookupSkips(m_endPoints[i], last.addr, last.port, last.paddr, last.pport,
                         last.dev)
            => \E n \in 1..4 : \E k \in 1..Len(BucketOf(m_endPoints, n, last)) :
                   BucketOf(m_endPoints, n, last)[k] = i

\* the orders the end points of a collection of n entries can be in
Orders(n) == {f \in [1..n -> 1..n] : \A i, j \in 1..n : i # j => f[i] # f[j]}

\* what Lookup gives for the arrival `call` when the end points of eps are
\* in the order f: the abort, or the set of end points returned, named by
\* their place in eps
OutcomeInOrder(eps, f, call) ==
    LET reordered == [k \in 1..Len(eps) |-> eps[f[k]]]
        retval == LookupRetval(reordered, call.addr, call.port, call.paddr, call.pport,
                               call.dev)
    IN  IF TooManyEndPoints(retval)
        THEN [abort |-> TRUE, found |-> {}]
        ELSE [abort |-> FALSE, found |-> {f[retval[k]] : k \in 1..Len(retval)}]

\* C29: the outcome of Lookup, the set of end points returned or the abort,
\* is the same in whatever order the collection holds its end points.
C29_OrderIrrelevant ==
    last.op = "Lookup" =>
        \A f \in Orders(Len(m_endPoints)) :
            OutcomeInOrder(m_endPoints, f, last) =
                [abort |-> aborted,
                 found |-> {last.found[k] : k \in 1..Len(last.found)}]

\* an arrival answered from the second of three end points, each for
\* another bucket or none
C29_Witness ==
    /\ last.op = "Lookup" /\ ~aborted
    /\ Len(m_endPoints) = 3
    /\ last.found = <<2>>
    /\ \A i, j \in 1..3 : i # j => m_endPoints[i] # m_endPoints[j]

\* C28: every end point Lookup returns has the destination or the wildcard
\* as local address; an end point on the all-routers address is returned
\* only for the all-routers destination, and every end point of bucket 2 has
\* the destination as local address.
C28_LocalExactOrWildcard ==
    last.op = "Lookup" =>
        /\ \A k \in 1..Len(last.found) :
               LET e == m_endPoints[last.found[k]]
               IN  /\ e.localAddr = last.addr \/ e.localAddr = AnyAddr
                   /\ e.localAddr = AllRouters => last.addr = AllRouters
        /\ \A k \in 1..Len(BucketOf(m_endPoints, 2, last)) :
               m_endPoints[BucketOf(m_endPoints, 2, last)[k]].localAddr = last.addr

\* an arrival for a unicast address goes to the wildcard end point although
\* an end point on the all-routers address has the port
C28_Witness ==
    /\ last.op = "Lookup" /\ ~aborted /\ last.addr = AddrA
    /\ Len(last.found) = 1
    /\ m_endPoints[last.found[1]].localAddr = AnyAddr
    /\ \E i \in 1..Len(m_endPoints) :
           /\ m_endPoints[i].localAddr = AllRouters
           /\ m_endPoints[i].peerPort = 0

\* C30: an end point SimpleLookup returns passes the tuple tests of Lookup
\* for the same arrival: its local address is dst or the wildcard, its peer
\* port sport or 0, its peer address src or the wildcard.
C30_SimpleLookupPassesFilters ==
    (last.op = "SimpleLookup" /\ last.ret # NullEndPoint) =>
        LET e == m_endPoints[last.ret]
        IN  /\ e.localAddr = last.addr \/ e.localAddr = AnyAddr
            /\ e.peerPort = last.pport \/ e.peerPort = 0
            /\ e.peerAddr = last.paddr \/ e.peerAddr = AnyAddr

\* destinations and sources of the arrivals the buckets are counted for
Destinations == {AllRouters, AddrA, AddrB}
Sources == {AnyAddr, AddrB}

\* C31: after allocations and releases alone, with no end point changed
\* after its allocation, each of the four buckets holds at most one end
\* point for every arrival, and Lookup does not reach the abort.
C31_BucketsHoldOne ==
    /\ ~aborted
    /\ \A daddr \in Destinations, saddr \in Sources, sport \in {0, PortQ}, n \in 1..4 :
           Len(Bucket(m_endPoints, n, daddr, PortP, saddr, sport, NoInterface)) <= 1

\* an arrival that three end points on its port pass, each in a bucket of
\* its own
C31_Witness ==
    /\ last.op = "Lookup" /\ Len(last.found) = 1
    /\ Len(m_endPoints) = 3
    /\ \A k \in 1..3 :
           ~LookupSkips(m_endPoints[k], last.addr, last.port, last.paddr, last.pport,
                        last.dev)
    /\ \A n \in {1, 2, 4} : Len(BucketOf(m_endPoints, n, last)) = 1

\* C32: once DeAllocate has removed an end point, no Lookup and no
\* SimpleLookup returns it, and it blocks no allocation: a refused
\* allocation has its conflict, and a failed port scan its full range, among
\* the end points still in the collection.
C32_ReleasedIsGone ==
    gone # <<>> =>
        /\ \A i \in 1..Len(m_endPoints) : m_endPoints[i] # gone[1]
        /\ last.op = "Lookup" =>
               \A k \in 1..Len(last.found) : m_endPoints[last.found[k]] # gone[1]
        /\ (last.op = "SimpleLookup" /\ last.ret # NullEndPoint) =>
               m_endPoints[last.ret] # gone[1]
        /\ (last.op \in {"AllocateDevPort", "AllocateDevAddrPort"}
            /\ last.ret = NullEndPoint) =>
               \E i \in 1..Len(m_endPoints) :
                   /\ m_endPoints[i].localAddr = last.addr
                   /\ m_endPoints[i].localPort = last.port
        /\ (last.op = "AllocateFull" /\ last.ret = NullEndPoint) =>
               \E i \in 1..Len(m_endPoints) :
                   ExactMatch(m_endPoints[i], last.addr, last.port, last.paddr, last.pport)
        /\ (last.op = "Allocate" /\ last.ret = NullEndPoint) => Exhausted(m_endPoints)

\* the connected end point of an arrival has been released and the arrival
\* goes to a less specific end point
C32_Witness ==
    /\ gone # <<>>
    /\ last.op = "Lookup" /\ Len(last.found) = 1
    /\ ExactMatch(gone[1], last.addr, last.port, last.paddr, last.pport)

\* C33: Allocate(nullptr, A, P) and Allocate(nullptr, A, P, B, Q) do not
\* commute: the connected allocation succeeds straight after the local one,
\* and the local allocation fails straight after the connected one.
C33_LocalThenFullOnly ==
    [][/\ (/\ last = Call("AllocateDevAddrPort", NoDevice, AddrA, PortP, AnyAddr, 0,
                          Len(m_endPoints), <<>>)
           /\ last'.op = "AllocateFull"
           /\ <<last'.dev, last'.addr, last'.port, last'.paddr, last'.pport>> =
                  <<NoDevice, AddrA, PortP, AddrB, PortQ>>
           /\ ~LookupFull(SubSeq(m_endPoints, 1, Len(m_endPoints) - 1),
                          NoDevice, AddrA, PortP, AddrB, PortQ))
          => /\ last'.ret # NullEndPoint
             /\ Len(m_endPoints') = Len(m_endPoints) + 1
       /\ (/\ last = Call("AllocateFull", NoDevice, AddrA, PortP, AddrB, PortQ,
                          Len(m_endPoints), <<>>)
           /\ last'.op = "AllocateDevAddrPort"
           /\ <<last'.dev, last'.addr, last'.port>> = <<NoDevice, AddrA, PortP>>)
          => /\ last'.ret = NullEndPoint
             /\ m_endPoints' = m_endPoints]_vars

\* the local allocation refused with the connected end point as the only
\* end point
C33_Witness ==
    /\ m_endPoints = <<SetPeer(Ipv6EndPoint(AddrA, PortP), AddrB, PortQ)>>
    /\ last = Call("AllocateDevAddrPort", NoDevice, AddrA, PortP, AnyAddr, 0,
                   NullEndPoint, <<>>)

\* C34: Lookup and SimpleLookup leave the collection, with the order and
\* the fields of its end points, and m_ephemeral as they are, also when
\* Lookup ends in the abort.
C34_LookupsReadOnly ==
    [][last'.op \in {"Lookup", "SimpleLookup"} =>
           UNCHANGED <<m_endPoints, m_ephemeral, m_portFirst, m_portLast>>]_vars

\* Lookup has ended in the abort on two of three end points, for an arrival
\* SimpleLookup has an end point for
C34_Witness ==
    /\ aborted /\ last.op = "Lookup"
    /\ Len(m_endPoints) = 3
    /\ Len(TopBucket(m_endPoints, last)) = 2
    /\ SimpleLookupRetval(m_endPoints, last.addr, last.port, last.paddr, last.pport)
           # NullEndPoint

\* C35: m_ephemeral changes only in a successful Allocate() or
\* Allocate(address), which sets it to the port returned; it stays within
\* [m_portFirst, m_portLast]; and the port returned is the port of no end
\* point, however that end point was allocated.
C35_EphemeralFrame ==
    [][/\ m_ephemeral' # m_ephemeral =>
              /\ last'.op \in EphemeralOps
              /\ last'.ret # NullEndPoint
              /\ m_ephemeral' = last'.port
       /\ InRange(m_ephemeral) /\ InRange(m_ephemeral')
       /\ (last'.op \in EphemeralOps /\ last'.ret # NullEndPoint) =>
              ~PortInUse(m_endPoints, last'.port)]_vars

\* Allocate() has passed over the last port of the range, which a connected
\* end point holds, and has come round to the first
C35_Witness ==
    /\ Len(m_endPoints) = 2
    /\ m_endPoints[1].localPort = m_portLast
    /\ m_endPoints[1].peerPort = PortQ
    /\ last.op = "Allocate" /\ last.ret = 2
    /\ last.port = m_portFirst /\ m_ephemeral = m_portFirst

\* C36: for a range of N ports the scan tests at most N candidates, each a
\* different port of the range, and then returns the last one tested when it
\* is free and 0 otherwise; all N are tested when every port is in use.
C36_ScanBounded ==
    LET tried == CandidatesTried(m_endPoints, m_ephemeral, m_portFirst, m_portLast)
        port == AllocateEphemeralPort(m_endPoints, m_ephemeral, m_portFirst, m_portLast)
    IN  /\ 1 <= Len(tried) /\ Len(tried) <= RangeCount
        /\ \A k \in 1..Len(tried) : InRange(tried[k])
        /\ \A j, k \in 1..Len(tried) : j # k => tried[j] # tried[k]
        /\ port = IF PortInUse(m_endPoints, tried[Len(tried)]) THEN 0
                  ELSE tried[Len(tried)]
        /\ Exhausted(m_endPoints) => (Len(tried) = RangeCount /\ port = 0)

\* Allocate() has failed after the scan has tested the three ports of the
\* range
C36_Witness ==
    /\ last.op = "Allocate" /\ last.ret = NullEndPoint
    /\ RangeCount = 3
    /\ Len(CandidatesTried(m_endPoints, m_ephemeral, m_portFirst, m_portLast)) = 3

====
